---------------------------- MODULE Spec2Model ----------------------------
(***************************************************************************)
(* A model of postgres-mcp-crud (src/postgres.ts): an MCP server that      *)
(* forwards six SQL tools to a pg connection pool, each inside its own     *)
(* transaction, and exposes the tables of the public schema as resources.  *)
(*                                                                         *)
(* Text is modelled as a sequence of one-character strings, so that        *)
(* trimming, URL resolution, URL serialisation and pathname splitting are  *)
(* computed character by character as the runtime computes them.           *)
(***************************************************************************)
EXTENDS Integers, Sequences, FiniteSets, TLC

(***************************************************************************)
(* Bounds of the model.                                                    *)
(***************************************************************************)
\* Longest table name the catalog may hold.
MaxNameLen == 3
\* Number of requests that may be in flight together.
NumOps == 2
\* Capacity of the connection pool.
PoolSize == 1

(***************************************************************************)
(* Text helpers.                                                           *)
(***************************************************************************)
Take(s, n) == SubSeq(s, 1, n)

Drop(s, n) == SubSeq(s, n + 1, Len(s))

\* Index of the first character of s that is in set, Len(s) + 1 if none.
IndexOf(s, set) ==
    LET I == {i \in 1..Len(s) : s[i] \in set}
    IN  IF I = {} THEN Len(s) + 1 ELSE CHOOSE i \in I : \A j \in I : i <= j

\* Index of the last character of s that is in set, 0 if none.
LastIndexOf(s, set) ==
    LET I == {i \in 1..Len(s) : s[i] \in set}
    IN  IF I = {} THEN 0 ELSE CHOOSE i \in I : \A j \in I : j <= i

\* String.prototype.split(sep) for a one-character separator: the pieces
\* between one separator and the next.
Split(s, sep) ==
    LET at == {i \in 1..Len(s) : s[i] = sep}
        cut(k) == IF k = 0 THEN 0
                  ELSE IF k > Cardinality(at) THEN Len(s) + 1
                  ELSE CHOOSE i \in at : Cardinality({j \in at : j <= i}) = k
    IN  [k \in 1..(Cardinality(at) + 1) |-> SubSeq(s, cut(k - 1) + 1, cut(k) - 1)]

\* The concatenation of a sequence of sequences.
Flatten(ss) ==
    LET f[i \in 0..Len(ss)] == IF i = 0 THEN <<>> ELSE f[i - 1] \o ss[i]
    IN  f[Len(ss)]

\* Characters String.prototype.trim strips at both ends (of the characters
\* the model draws, only the space).
WhiteSpace == {" "}

\* s from its first to its last character outside set.
Strip(s, set) ==
    LET keep == {i \in 1..Len(s) : s[i] \notin set}
    IN  IF keep = {} THEN <<>>
        ELSE SubSeq(s, CHOOSE i \in keep : \A j \in keep : i <= j,
                       CHOOSE i \in keep : \A j \in keep : j <= i)

\* Trim as a test for the empty string alone would see it: nothing stripped.
TrimNothing(s) == s

\* String.prototype.trim
Trim(s) == Strip(s, WhiteSpace)

\* An optional value: <<>> is undefined/null, <<v>> is v.
None == <<>>

Some(v) == <<v>>

(***************************************************************************)
(* The WHATWG URL parser, as `new URL(input, base)` runs it, for URLs      *)
(* whose scheme is not special (postgres:, postgresql:, a:).               *)
(***************************************************************************)
Alpha == {"a", "d", "e", "g", "h", "k", "l", "o", "p", "q", "r", "s", "t", "u"}

Digit == {"5"}

SchemeChars == Alpha \cup Digit \cup {"+", "-", "."}

\* ftp, file, http, https, ws, wss
SpecialSchemes ==
    { <<"f", "t", "p">>, <<"f", "i", "l", "e">>, <<"h", "t", "t", "p">>,
      <<"h", "t", "t", "p", "s">>, <<"w", "s">>, <<"w", "s", "s">> }

\* The percent-encoding of one character.
PercentCode(c) ==
    CASE c = " " -> <<"%", "2", "0">>
      [] c = "#" -> <<"%", "2", "3">>
      [] c = "/" -> <<"%", "2", "F">>
      [] c = ":" -> <<"%", "3", "A">>
      [] c = "?" -> <<"%", "3", "F">>
      [] OTHER -> <<c>>

PercentEncode(s, set) ==
    Flatten([i \in 1..Len(s) |-> IF s[i] \in set THEN PercentCode(s[i]) ELSE <<s[i]>>])

\* The percent-encode sets, restricted to the characters the model draws.
FragmentSet == {" "}

QuerySet == {" ", "#"}

PathSet == QuerySet \cup {"?"}

UserinfoSet == PathSet \cup {"/", ":"}

\* Code points an opaque host may not hold.
ForbiddenHost == {" ", "#", "/", ":", "?"}

\* Leading and trailing C0 control characters and spaces are removed.
UrlStrip(s) == Strip(s, {" "})

Failure ==
    [ok |-> FALSE, scheme |-> <<>>, username |-> <<>>, password |-> <<>>,
     host |-> None, port |-> None, opaque |-> FALSE, path |-> <<>>,
     query |-> None, fragment |-> None]

\* The URL record with an empty authority and path.
BlankUrl(scheme) == [Failure EXCEPT !.ok = TRUE, !.scheme = scheme]

\* "shorten a path" for a scheme other than file.
ShortenPath(path) == SubSeq(path, 1, Len(path) - 1)

\* The path state at the end of one segment: buffer is the segment, last
\* tells that it ends at the end of the path and not at "/".
PathSegment(path, buffer, last) ==
    IF buffer = <<".", ".">>
      THEN ShortenPath(path) \o (IF last THEN << <<>> >> ELSE <<>>)
    ELSE IF buffer = <<".">>
      THEN path \o (IF last THEN << <<>> >> ELSE <<>>)
    ELSE path \o <<buffer>>

\* The path state over the segments the input splits into at "/".
PathState(segs, path) ==
    LET f[i \in 0..Len(segs)] ==
            IF i = 0 THEN path
            ELSE PathSegment(f[i - 1], PercentEncode(segs[i], PathSet), i = Len(segs))
    IN  f[Len(segs)]

\* Path state entered on the text s (the text up to "?" or "#").
ParsePath(s, path) == PathState(Split(s, "/"), path)

\* Authority, host and port states over the text between "//" and the next
\* "/", "?", "#" or the end; url holds the scheme.
ParseAuthority(auth, url) ==
    LET at == LastIndexOf(auth, {"@"})
        cred == Take(auth, IF at = 0 THEN 0 ELSE at - 1)
        hostport == Drop(auth, at)
        colon == IndexOf(cred, {":"})
        user == PercentEncode(Take(cred, colon - 1), UserinfoSet)
        pass == PercentEncode(Drop(cred, colon), UserinfoSet)
        hcolon == IndexOf(hostport, {":"})
        hostText == Take(hostport, hcolon - 1)
        portText == Drop(hostport, hcolon)
    IN  IF at > 0 /\ hostport = <<>> THEN Failure
        ELSE IF hcolon <= Len(hostport) /\ hostText = <<>> THEN Failure
        ELSE IF \E i \in 1..Len(hostText) : hostText[i] \in ForbiddenHost THEN Failure
        ELSE IF \E i \in 1..Len(portText) : portText[i] \notin Digit THEN Failure
        ELSE [url EXCEPT !.username = user, !.password = pass,
                         !.host = Some(hostText),
                         !.port = IF portText = <<>> THEN None ELSE Some(portText)]

\* Everything after the scheme of an absolute URL, or after "//" of a
\* relative one: authority, then path start state and path state.
ParseFromAuthority(s, url) ==
    LET e == IndexOf(s, {"/"})
        u == ParseAuthority(Take(s, e - 1), url)
    IN  IF ~u.ok THEN Failure
        ELSE IF e > Len(s) THEN u
        ELSE [u EXCEPT !.path = ParsePath(Drop(s, e), <<>>)]

\* The part of the input before "?" and "#", for a URL with its own scheme.
ParseAbsolute(scheme, rest) ==
    IF rest # <<>> /\ Head(rest) = "/"
      THEN IF Len(rest) >= 2 /\ rest[2] = "/"
             THEN ParseFromAuthority(Drop(rest, 2), BlankUrl(scheme))
             ELSE [BlankUrl(scheme) EXCEPT !.path = ParsePath(Drop(rest, 1), <<>>)]
      ELSE [BlankUrl(scheme) EXCEPT !.opaque = TRUE, !.path = <<rest>>]

\* The part of the input before "?" and "#", resolved against base.
ParseRelative(s, hasQuery, base) ==
    IF s = <<>>
      THEN [base EXCEPT !.query = IF hasQuery THEN None ELSE base.query,
                        !.fragment = None]
    ELSE IF Head(s) = "/"
      THEN IF Len(s) >= 2 /\ s[2] = "/"
             THEN ParseFromAuthority(Drop(s, 2), BlankUrl(base.scheme))
             ELSE [base EXCEPT !.path = ParsePath(Drop(s, 1), <<>>),
                               !.query = None, !.fragment = None]
    ELSE [base EXCEPT !.path = ParsePath(s, ShortenPath(base.path)),
                      !.query = None, !.fragment = None]

\* Length of the scheme the input starts with (the text before its first
\* ":"), 0 when the input has no scheme.
SchemeLen(s) ==
    LET c == IndexOf(s, {":"})
    IN  IF /\ c <= Len(s)
           /\ c > 1
           /\ s[1] \in Alpha
           /\ \A i \in 1..(c - 1) : s[i] \in SchemeChars
        THEN c - 1 ELSE 0

\* new URL(input, base); base = Failure stands for no base.
ParseURL(input, base) ==
    LET s == UrlStrip(input)
        h == IndexOf(s, {"#"})
        noFrag == Take(s, h - 1)
        fragment == IF h > Len(s) THEN None
                    ELSE Some(PercentEncode(Drop(s, h), FragmentSet))
        q == IndexOf(noFrag, {"?"})
        main == Take(noFrag, q - 1)
        hasQuery == q <= Len(noFrag)
        query == IF hasQuery THEN Some(PercentEncode(Drop(noFrag, q), QuerySet))
                 ELSE None
        n == SchemeLen(main)
        u == IF n > 0 THEN ParseAbsolute(Take(main, n), Drop(main, n + 1))
             ELSE IF ~base.ok \/ base.opaque THEN Failure
             ELSE ParseRelative(main, hasQuery, base)
    IN  IF ~u.ok THEN Failure
        ELSE [u EXCEPT !.query = IF hasQuery THEN query ELSE u.query,
                       !.fragment = fragment]

\* URL path serialiser: the pathname getter.
Pathname(url) ==
    IF url.opaque THEN url.path[1]
    ELSE Flatten([i \in 1..Len(url.path) |-> <<"/">> \o url.path[i]])

\* URL serialiser: the href getter.
Href(url) ==
    url.scheme \o <<":">>
    \o (IF url.host # None
          THEN <<"/", "/">>
               \o (IF url.username # <<>> \/ url.password # <<>>
                     THEN url.username
                          \o (IF url.password # <<>> THEN <<":">> \o url.password
                              ELSE <<>>)
                          \o <<"@">>
                     ELSE <<>>)
               \o url.host[1]
               \o (IF url.port # None THEN <<":">> \o url.port[1] ELSE <<>>)
          ELSE IF ~url.opaque /\ Len(url.path) > 1 /\ url.path[1] = <<>>
            THEN <<"/", ".">>
          ELSE <<>>)
    \o Pathname(url)
    \o (IF url.query # None THEN <<"?">> \o url.query[1] ELSE <<>>)
    \o (IF url.fragment # None THEN <<"#">> \o url.fragment[1] ELSE <<>>)

\* The protocol setter: a non-special scheme can only become non-special.
SetProtocol(url, scheme) ==
    IF (url.scheme \in SpecialSchemes) # (scheme \in SpecialSchemes) THEN url
    ELSE [url EXCEPT !.scheme = scheme]

\* The password setter: refused for a URL that cannot have credentials.
SetPassword(url, password) ==
    IF url.host = None \/ url.host = Some(<<>>) THEN url
    ELSE [url EXCEPT !.password = PercentEncode(password, UserinfoSet)]

(***************************************************************************)
(* State.                                                                  *)
(***************************************************************************)
VARIABLES
    env,                  \* process.env.DATABASE_URL once dotenv has run
    argv,                 \* process.argv.slice(2)
    phase,                \* "starting", "exited", "crashed" or "serving"
    databaseUrl,          \* the connection string chosen at startup
    resourceBaseUrl,      \* base URL of the resource URIs
    poolConnectionString, \* connectionString the pool was created with
    tables,               \* table_name of the tables of the public schema
    pc,                   \* where each request's handler stands
    req,                  \* each request's parameters
    pendingQueue,         \* pool: requests waiting for a client, in order
    leasedTo,             \* pool: the request each client is checked out to
    client,               \* the client a handler got from pool.connect()
    tx,                   \* database: the open transaction of each session
    persisted,            \* database: calls whose effects are committed
    issued,               \* commands a handler has sent on its client
    replies,              \* whether each issued command succeeded
    result,               \* executeSql: result of the caller's statement
    transactionCompleted, \* executeSql: the flag of the same name
    caught,               \* executeSql: the error its catch block holds
    outcome,              \* what the handler returned or threw
    connects,             \* number of pool.connect() calls of the handler
    releaseCount,         \* number of client.release() calls of the handler
    warnings              \* number of console.warn calls of the handler

startupVars == <<env, argv, phase, databaseUrl, resourceBaseUrl, poolConnectionString>>

poolVars == <<pendingQueue, leasedTo, client, connects, releaseCount>>

dbVars == <<tx, persisted>>

execVars == <<issued, replies, result, transactionCompleted, caught, warnings>>

vars == <<startupVars, tables, pc, req, poolVars, dbVars, execVars, outcome>>

Procs == 1..NumOps

Conns == 1..PoolSize

(***************************************************************************)
(* Values the environment supplies.                                        *)
(***************************************************************************)
\* postgres://u:k@h:5/d
UrlA ==
    <<"p", "o", "s", "t", "g", "r", "e", "s", ":", "/", "/",
      "u", ":", "k", "@", "h", ":", "5", "/", "d">>

\* postgresql://h
UrlB == <<"p", "o", "s", "t", "g", "r", "e", "s", "q", "l", ":", "/", "/", "h">>

\* A connection string that is no URL.
UrlBad == <<"h">>

\* What DATABASE_URL may be: unset, empty, or a connection string.
EnvValues == {None, Some(<<>>), Some(UrlA), Some(UrlB), Some(UrlBad)}

\* What the command line may hold after the script name.
ArgvValues == {<<>>, <<UrlA>>, <<UrlB>>}

\* Characters a table name is drawn from.
NameChars == {"a", "/", "?", "#", " ", ".", ":"}

RECURSIVE NamesOfLen(_)
NamesOfLen(n) ==
    IF n = 0 THEN {<<>>}
    ELSE {Append(s, c) : s \in NamesOfLen(n - 1), c \in NameChars}

\* Table names: PostgreSQL accepts any non-empty quoted identifier.
TableNames == UNION {NamesOfLen(n) : n \in 1..MaxNameLen}

\* A value of request.params.arguments?.sql.
UndefinedArg == [type |-> "undefined", text |-> <<>>]

NumberArg == [type |-> "number", text |-> <<>>]

StringArg(s) == [type |-> "string", text |-> s]

AllSqlArguments ==
    {UndefinedArg, NumberArg, StringArg(<<>>), StringArg(<<" ">>),
     StringArg(<<"a">>), StringArg(<<" ", "a", " ">>)}

AllToolNames ==
    {"query", "insert", "update", "delete", "function_call", "function_create", "drop"}

\* Results the database may give for the caller's statement.
Results ==
    { [rows |-> <<>>, rowCount |-> 0, command |-> "DELETE"],
      [rows |-> <<"r">>, rowCount |-> 1, command |-> "SELECT"] }

(***************************************************************************)
(* Startup (module top level).                                             *)
(***************************************************************************)
Postgres == <<"p", "o", "s", "t", "g", "r", "e", "s">>

\* process.env.DATABASE_URL ?? args[0]
DatabaseUrlOf(e, a) ==
    IF e # None THEN e ELSE IF Len(a) >= 1 THEN Some(a[1]) ELSE None

\* The top-level statements of the module, from the configuration to the pool.
Boot(e, a) ==
    LET url == DatabaseUrlOf(e, a)
        parsed == ParseURL(url[1], Failure)
    IN  IF url = None \/ url = Some(<<>>)
          THEN [phase |-> "exited", databaseUrl |-> url,
                resourceBaseUrl |-> Failure, poolConnectionString |-> None]
        ELSE IF ~parsed.ok
          THEN [phase |-> "crashed", databaseUrl |-> url,
                resourceBaseUrl |-> Failure, poolConnectionString |-> None]
        ELSE [phase |-> "serving", databaseUrl |-> url,
              resourceBaseUrl |-> SetPassword(SetProtocol(parsed, Postgres), <<>>),
              poolConnectionString |-> url]

Startup ==
    /\ phase = "starting"
    /\ LET b == Boot(env, argv)
       IN  /\ phase' = b.phase
           /\ databaseUrl' = b.databaseUrl
           /\ resourceBaseUrl' = b.resourceBaseUrl
           /\ poolConnectionString' = b.poolConnectionString
    /\ UNCHANGED <<env, argv, tables, pc, req, poolVars, dbVars, execVars, outcome>>

(***************************************************************************)
(* The tools and the pieces of executeSql.                                 *)
(***************************************************************************)
TOOL_DEFINITIONS ==
    << [name |-> "query", readOnly |-> TRUE],
       [name |-> "insert", readOnly |-> FALSE],
       [name |-> "update", readOnly |-> FALSE],
       [name |-> "delete", readOnly |-> FALSE],
       [name |-> "function_call", readOnly |-> FALSE],
       [name |-> "function_create", readOnly |-> FALSE] >>

\* TOOL_DEFINITIONS.find(({ name }) => name === request.params.name)
FindTool(name) ==
    LET I == {i \in 1..Len(TOOL_DEFINITIONS) : TOOL_DEFINITIONS[i].name = name}
    IN  IF I = {} THEN None
        ELSE Some(TOOL_DEFINITIONS[CHOOSE i \in I : \A j \in I : i <= j])

\* The negation of the test that throws for the "sql" argument.
SqlArgumentValid(arg) == arg.type = "string" /\ Len(Trim(arg.text)) # 0

SCHEMA_PATH == <<"s", "c", "h", "e", "m", "a">>

\* A command sent with client.query.
Control(text) == [kind |-> "control", text |-> text, sql |-> <<>>, params |-> None]

Statement(sql) == [kind |-> "statement", text |-> "", sql |-> sql, params |-> None]

TablesQuery ==
    [kind |-> "catalog", text |-> "SELECT table_name", sql |-> <<>>, params |-> None]

ColumnsQuery(tableName) ==
    [kind |-> "catalog", text |-> "SELECT column_name, data_type", sql |-> <<>>,
     params |-> tableName]

\* The command that opens the transaction.
BeginText(readOnly) == IF readOnly THEN "BEGIN TRANSACTION READ ONLY" ELSE "BEGIN"

\* The closing command if the read-only flag were ignored, either way.
CloseTextAlwaysCommit(readOnly) == "COMMIT"

CloseTextAlwaysRollback(readOnly) == "ROLLBACK"

\* The command that closes the transaction after the statement succeeded.
CloseText(readOnly) == IF readOnly THEN "ROLLBACK" ELSE "COMMIT"

\* The catch block if the ROLLBACK were awaited without .catch: its
\* rejection would replace the error caught.
ThrownErrorLatest(original, rollbackError) ==
    IF rollbackError # None THEN rollbackError[1] ELSE original

\* What the catch block throws: the error it caught, whatever became of the
\* ROLLBACK (rollbackError is None when it succeeded).
ThrownError(original, rollbackError) == original

\* The payload if every tool answered with the envelope.
ResponsePayloadAlwaysEnvelope(readOnly, res) ==
    [shape |-> "envelope", rowCount |-> res.rowCount, rows |-> res.rows,
     command |-> res.command]

\* The payload the tool handler serialises.
ResponsePayload(readOnly, res) ==
    IF readOnly THEN [shape |-> "rows", rows |-> res.rows]
    ELSE [shape |-> "envelope", rowCount |-> res.rowCount, rows |-> res.rows,
          command |-> res.command]

\* JSON.stringify(value, null, 2): the text is kept as a term over the value
\* it serialises; nothing in the program parses it back.
JsonStringify(value) == [json |-> value]

HandlerError(message) == [source |-> "handler", message |-> message, at |-> 0]

UrlError == [source |-> "url", message |-> "Invalid URL", at |-> 0]

PoolError == [source |-> "pool", message |-> "connect failed", at |-> 0]

\* The error the driver rejects the n-th command of a handler with.
DatabaseError(n) == [source |-> "database", message |-> "query failed", at |-> n]

NoRequest ==
    [kind |-> "none", name |-> "", arg |-> UndefinedArg, uri |-> <<>>, tableName |-> None]

NoOutcome == [status |-> "none"]

Thrown(e) == [status |-> "error", error |-> e]

(***************************************************************************)
(* The database session behind each client.                                *)
(***************************************************************************)
NoTx == [by |-> 0, aborted |-> FALSE, effects |-> {}]

\* BEGIN: opens a transaction, or (with a warning) stays in the open one.
DbBegin(t, p) == IF t.by = 0 THEN [by |-> p, aborted |-> FALSE, effects |-> {}] ELSE t

\* The effects of a statement of call p stay pending in the transaction.
DbStatement(t, p) == [t EXCEPT !.effects = @ \cup {p}]

\* A statement that fails aborts the transaction it runs in.
DbStatementFailed(t, p) ==
    IF t.by = 0 THEN t ELSE [t EXCEPT !.aborted = TRUE, !.effects = @ \cup {p}]

\* What COMMIT or ROLLBACK makes durable: COMMIT of a transaction that is
\* not aborted commits its pending effects.
DbDurable(t, text) == IF text = "COMMIT" /\ ~t.aborted THEN t.effects ELSE {}

(***************************************************************************)
(* The pool.                                                               *)
(***************************************************************************)
\* pool.connect(): the request joins the queue of the pool.
PoolConnect(p) ==
    /\ pendingQueue' = Append(pendingQueue, p)
    /\ connects' = [connects EXCEPT ![p] = @ + 1]

\* The pool can serve the request at the head of its queue with client c.
CanGrant(p, c) == pendingQueue # <<>> /\ Head(pendingQueue) = p /\ leasedTo[c] = 0

\* The promise of pool.connect() resolves with client c.
PoolGrant(p, c) ==
    /\ CanGrant(p, c)
    /\ pendingQueue' = Tail(pendingQueue)
    /\ leasedTo' = [leasedTo EXCEPT ![c] = p]
    /\ client' = [client EXCEPT ![p] = c]
    /\ UNCHANGED <<connects, releaseCount>>

\* client.release()
Release(p) ==
    /\ leasedTo' = [leasedTo EXCEPT ![client[p]] = 0]
    /\ releaseCount' = [releaseCount EXCEPT ![p] = @ + 1]
    /\ UNCHANGED <<pendingQueue, client, connects>>

\* The handler of request p ends: it returned or threw o.
Finish(p, o) ==
    /\ pc' = [pc EXCEPT ![p] = "done"]
    /\ outcome' = [outcome EXCEPT ![p] = o]

\* pool.connect() rejects: no client could be connected.
ConnectFail(p) ==
    /\ pc[p] = "connecting"
    /\ \E c \in Conns : CanGrant(p, c)
    /\ pendingQueue' = Tail(pendingQueue)
    /\ Finish(p, Thrown(PoolError))
    /\ UNCHANGED <<startupVars, tables, req, leasedTo, client, connects, releaseCount,
                   dbVars, execVars>>

(***************************************************************************)
(* The tool handler and executeSql.  Each action is one run of the handler *)
(* between two awaits: the reply to the awaited call, then the code up to  *)
(* the next await, return or throw.                                        *)
(***************************************************************************)
ReadOnlyOf(p) == FindTool(req[p].name)[1].readOnly

Send(p, cmd) == issued' = [issued EXCEPT ![p] = Append(@, cmd)]

Reply(p, ok) == replies' = [replies EXCEPT ![p] = Append(@, ok)]

\* The tool handler up to `await pool.connect()` in executeSql.
CallTool(p, name, arg) ==
    /\ phase = "serving"
    /\ pc[p] = "idle"
    /\ req' = [req EXCEPT ![p] = [NoRequest EXCEPT !.kind = "tool", !.name = name,
                                                   !.arg = arg]]
    /\ IF FindTool(name) = None
         THEN /\ Finish(p, Thrown(HandlerError("Unknown tool")))
              /\ UNCHANGED poolVars
       ELSE IF ~SqlArgumentValid(arg)
         THEN /\ Finish(p, Thrown(HandlerError("The sql argument must be a non-empty string.")))
              /\ UNCHANGED poolVars
       ELSE /\ pc' = [pc EXCEPT ![p] = "connecting"]
            /\ PoolConnect(p)
            /\ UNCHANGED <<outcome, leasedTo, client, releaseCount>>
    /\ UNCHANGED <<startupVars, tables, dbVars, execVars>>

\* executeSql gets its client and sends the command that opens the transaction.
ExecuteSqlConnected(p) ==
    /\ pc[p] = "connecting"
    /\ req[p].kind = "tool"
    /\ \E c \in Conns : PoolGrant(p, c)
    /\ Send(p, Control(BeginText(ReadOnlyOf(p))))
    /\ pc' = [pc EXCEPT ![p] = "begin"]
    /\ UNCHANGED <<startupVars, tables, req, dbVars, replies, result,
                   transactionCompleted, caught, warnings, outcome>>

\* The catch block of executeSql up to its await: e is the error caught.
Catch(p, e) ==
    /\ caught' = [caught EXCEPT ![p] = Some(e)]
    /\ IF ~transactionCompleted[p]
         THEN /\ Send(p, Control("ROLLBACK"))
              /\ pc' = [pc EXCEPT ![p] = "recover"]
              /\ UNCHANGED <<outcome, poolVars>>
         ELSE /\ UNCHANGED issued
              /\ Release(p)
              /\ Finish(p, Thrown(e))
    /\ UNCHANGED <<result, transactionCompleted, warnings>>

\* BEGIN succeeds; the caller's statement is sent as it came.
BeginOk(p) ==
    /\ pc[p] = "begin"
    /\ ~tx[client[p]].aborted
    /\ tx' = [tx EXCEPT ![client[p]] = DbBegin(@, p)]
    /\ Reply(p, TRUE)
    /\ Send(p, Statement(req[p].arg.text))
    /\ pc' = [pc EXCEPT ![p] = "statement"]
    /\ UNCHANGED <<startupVars, tables, req, poolVars, persisted, result,
                   transactionCompleted, caught, warnings, outcome>>

\* BEGIN fails.
BeginFail(p) ==
    /\ pc[p] = "begin"
    /\ Reply(p, FALSE)
    /\ Catch(p, DatabaseError(Len(issued[p])))
    /\ UNCHANGED <<startupVars, tables, req, dbVars>>

\* The statement succeeds with result res; the closing command is sent.
StatementOk(p, res) ==
    /\ pc[p] = "statement"
    /\ ~tx[client[p]].aborted
    /\ tx' = [tx EXCEPT ![client[p]] = DbStatement(@, p)]
    /\ Reply(p, TRUE)
    /\ result' = [result EXCEPT ![p] = Some(res)]
    /\ Send(p, Control(CloseText(ReadOnlyOf(p))))
    /\ pc' = [pc EXCEPT ![p] = "close"]
    /\ UNCHANGED <<startupVars, tables, req, poolVars, persisted,
                   transactionCompleted, caught, warnings, outcome>>

\* The statement fails.
StatementFail(p) ==
    /\ pc[p] = "statement"
    /\ tx' = [tx EXCEPT ![client[p]] = DbStatementFailed(@, p)]
    /\ Reply(p, FALSE)
    /\ Catch(p, DatabaseError(Len(issued[p])))
    /\ UNCHANGED <<startupVars, tables, req, persisted>>

\* COMMIT or ROLLBACK succeeds: executeSql returns through its finally block
\* and the tool handler builds its response.
CloseOk(p) ==
    /\ pc[p] = "close"
    /\ persisted' = persisted \cup DbDurable(tx[client[p]], issued[p][Len(issued[p])].text)
    /\ tx' = [tx EXCEPT ![client[p]] = NoTx]
    /\ Reply(p, TRUE)
    /\ transactionCompleted' = [transactionCompleted EXCEPT ![p] = TRUE]
    /\ Release(p)
    /\ Finish(p, [status |-> "ok", isError |-> FALSE,
                  payload |-> ResponsePayload(ReadOnlyOf(p), result[p][1]),
                  text |-> JsonStringify(ResponsePayload(ReadOnlyOf(p), result[p][1]))])
    /\ UNCHANGED <<startupVars, tables, req, issued, result, caught, warnings>>

\* COMMIT or ROLLBACK fails: the session may or may not still be in the
\* transaction.
CloseFail(p) ==
    /\ pc[p] = "close"
    /\ \E t \in {tx[client[p]], NoTx} : tx' = [tx EXCEPT ![client[p]] = t]
    /\ Reply(p, FALSE)
    /\ Catch(p, DatabaseError(Len(issued[p])))
    /\ UNCHANGED <<startupVars, tables, req, persisted>>

\* The ROLLBACK of the catch block succeeds: the error caught is thrown
\* through the finally block.
RecoverOk(p) ==
    /\ pc[p] = "recover"
    /\ tx' = [tx EXCEPT ![client[p]] = NoTx]
    /\ Reply(p, TRUE)
    /\ Release(p)
    /\ Finish(p, Thrown(ThrownError(caught[p][1], None)))
    /\ UNCHANGED <<startupVars, tables, req, persisted, issued, result,
                   transactionCompleted, caught, warnings>>

\* RecoverFail if release() stood at the end of the try block and not in
\* finally: the throw would skip it.
RecoverFailLeak(p) ==
    /\ pc[p] = "recover"
    /\ \E t \in {tx[client[p]], NoTx} : tx' = [tx EXCEPT ![client[p]] = t]
    /\ Reply(p, FALSE)
    /\ warnings' = [warnings EXCEPT ![p] = @ + 1]
    /\ Finish(p, Thrown(ThrownError(caught[p][1], Some(DatabaseError(Len(issued[p]))))))
    /\ UNCHANGED <<startupVars, tables, req, persisted, issued, result,
                   transactionCompleted, caught, poolVars>>

\* The ROLLBACK of the catch block fails: .catch logs a warning, and the
\* error caught is thrown through the finally block.
RecoverFail(p) ==
    /\ pc[p] = "recover"
    /\ \E t \in {tx[client[p]], NoTx} : tx' = [tx EXCEPT ![client[p]] = t]
    /\ Reply(p, FALSE)
    /\ warnings' = [warnings EXCEPT ![p] = @ + 1]
    /\ Release(p)
    /\ Finish(p, Thrown(ThrownError(caught[p][1], Some(DatabaseError(Len(issued[p]))))))
    /\ UNCHANGED <<startupVars, tables, req, persisted, issued, result,
                   transactionCompleted, caught>>

(***************************************************************************)
(* The resource handlers.                                                  *)
(***************************************************************************)
\* The URL of the resource of one row of the table listing.
ResourceUrl(tableName) == ParseURL(tableName \o <<"/">> \o SCHEMA_PATH, resourceBaseUrl)

\* The descriptor the listing builds for one row.
Resource(tableName) ==
    [uri |-> Href(ResourceUrl(tableName)), mimeType |-> "application/json",
     name |-> [quoted |-> tableName, suffix |-> " database schema"]]

\* Array.prototype.pop of the array and of what it leaves.
Pop(a) == IF a = <<>> THEN None ELSE Some(a[Len(a)])

PopRest(a) == IF a = <<>> THEN <<>> ELSE Take(a, Len(a) - 1)

\* The rows information_schema.columns holds for a table name parameter.
ColumnsOf(param) ==
    IF \E i \in 1..Len(tables) : Some(tables[i]) = param
      THEN <<[column_name |-> "id", data_type |-> "integer"]>>
      ELSE <<>>

\* The listing handler up to `await pool.connect()`.
ListResources(p) ==
    /\ phase = "serving"
    /\ pc[p] = "idle"
    /\ req' = [req EXCEPT ![p] = [NoRequest EXCEPT !.kind = "list"]]
    /\ pc' = [pc EXCEPT ![p] = "connecting"]
    /\ PoolConnect(p)
    /\ UNCHANGED <<startupVars, tables, leasedTo, client, releaseCount, dbVars,
                   execVars, outcome>>

\* The listing handler gets its client and sends the table query.
ListConnected(p) ==
    /\ pc[p] = "connecting"
    /\ req[p].kind = "list"
    /\ \E c \in Conns : PoolGrant(p, c)
    /\ Send(p, TablesQuery)
    /\ pc' = [pc EXCEPT ![p] = "listQuery"]
    /\ UNCHANGED <<startupVars, tables, req, dbVars, replies, result,
                   transactionCompleted, caught, warnings, outcome>>

\* The table query succeeds with the table names `rows`: they are mapped to
\* resources, and new URL throws for a row that does not resolve; either way
\* finally releases.
ListQueryOk(p, rows) ==
    /\ pc[p] = "listQuery"
    /\ ~tx[client[p]].aborted
    /\ Reply(p, TRUE)
    /\ Release(p)
    /\ IF \E i \in 1..Len(rows) : ~ResourceUrl(rows[i]).ok
         THEN Finish(p, Thrown(UrlError))
         ELSE Finish(p, [status |-> "ok",
                         resources |-> [i \in 1..Len(rows) |-> Resource(rows[i])]])
    /\ UNCHANGED <<startupVars, tables, req, dbVars, issued, result,
                   transactionCompleted, caught, warnings>>

\* ListQueryFail if the listing handler had no finally block.
ListQueryFailLeak(p) ==
    /\ pc[p] = "listQuery"
    /\ Reply(p, FALSE)
    /\ Finish(p, Thrown(DatabaseError(Len(issued[p]))))
    /\ UNCHANGED <<startupVars, tables, req, dbVars, issued, result,
                   transactionCompleted, caught, warnings, poolVars>>

\* The table query fails: the error is thrown through finally.
ListQueryFail(p) ==
    /\ pc[p] = "listQuery"
    /\ Reply(p, FALSE)
    /\ Release(p)
    /\ Finish(p, Thrown(DatabaseError(Len(issued[p]))))
    /\ UNCHANGED <<startupVars, tables, req, dbVars, issued, result,
                   transactionCompleted, caught, warnings>>

\* The read handler up to `await pool.connect()`.
ReadResource(p, uri) ==
    /\ phase = "serving"
    /\ pc[p] = "idle"
    /\ LET resourceUrl == ParseURL(uri, Failure)
           pathComponents == Split(Pathname(resourceUrl), "/")
           schema == Pop(pathComponents)
           tableName == Pop(PopRest(pathComponents))
       IN  IF ~resourceUrl.ok
             THEN /\ req' = [req EXCEPT ![p] = [NoRequest EXCEPT !.kind = "read",
                                                                 !.uri = uri]]
                  /\ Finish(p, Thrown(UrlError))
                  /\ UNCHANGED poolVars
           ELSE IF schema # Some(SCHEMA_PATH)
             THEN /\ req' = [req EXCEPT ![p] = [NoRequest EXCEPT !.kind = "read",
                                                                 !.uri = uri]]
                  /\ Finish(p, Thrown(HandlerError("Invalid resource URI")))
                  /\ UNCHANGED poolVars
           ELSE /\ req' = [req EXCEPT ![p] = [NoRequest EXCEPT !.kind = "read",
                                                               !.uri = uri,
                                                               !.tableName = tableName]]
                /\ pc' = [pc EXCEPT ![p] = "connecting"]
                /\ PoolConnect(p)
                /\ UNCHANGED <<outcome, leasedTo, client, releaseCount>>
    /\ UNCHANGED <<startupVars, tables, dbVars, execVars>>

\* The read handler gets its client and sends the column query.
ReadConnected(p) ==
    /\ pc[p] = "connecting"
    /\ req[p].kind = "read"
    /\ \E c \in Conns : PoolGrant(p, c)
    /\ Send(p, ColumnsQuery(req[p].tableName))
    /\ pc' = [pc EXCEPT ![p] = "readQuery"]
    /\ UNCHANGED <<startupVars, tables, req, dbVars, replies, result,
                   transactionCompleted, caught, warnings, outcome>>

\* The column query succeeds: the rows are returned as JSON text.
ReadQueryOk(p) ==
    /\ pc[p] = "readQuery"
    /\ ~tx[client[p]].aborted
    /\ Reply(p, TRUE)
    /\ Release(p)
    /\ Finish(p, [status |-> "ok", uri |-> req[p].uri, mimeType |-> "application/json",
                  rows |-> ColumnsOf(issued[p][Len(issued[p])].params),
                  text |-> JsonStringify(ColumnsOf(issued[p][Len(issued[p])].params))])
    /\ UNCHANGED <<startupVars, tables, req, dbVars, issued, result,
                   transactionCompleted, caught, warnings>>

\* The column query fails: the error is thrown through finally.
ReadQueryFail(p) ==
    /\ pc[p] = "readQuery"
    /\ Reply(p, FALSE)
    /\ Release(p)
    /\ Finish(p, Thrown(DatabaseError(Len(issued[p]))))
    /\ UNCHANGED <<startupVars, tables, req, dbVars, issued, result,
                   transactionCompleted, caught, warnings>>

(***************************************************************************)
(* Specifications.                                                         *)
(***************************************************************************)
\* No request has arrived and no client is checked out.
Quiet ==
    /\ pc = [p \in Procs |-> "idle"]
    /\ req = [p \in Procs |-> NoRequest]
    /\ pendingQueue = <<>>
    /\ leasedTo = [c \in Conns |-> 0]
    /\ client = [p \in Procs |-> 0]
    /\ tx = [c \in Conns |-> NoTx]
    /\ persisted = {}
    /\ issued = [p \in Procs |-> <<>>]
    /\ replies = [p \in Procs |-> <<>>]
    /\ result = [p \in Procs |-> None]
    /\ transactionCompleted = [p \in Procs |-> FALSE]
    /\ caught = [p \in Procs |-> None]
    /\ outcome = [p \in Procs |-> NoOutcome]
    /\ connects = [p \in Procs |-> 0]
    /\ releaseCount = [p \in Procs |-> 0]
    /\ warnings = [p \in Procs |-> 0]

\* The server started with configuration (e, a).
Started(e, a) ==
    /\ env = e
    /\ argv = a
    /\ phase = Boot(e, a).phase
    /\ databaseUrl = Boot(e, a).databaseUrl
    /\ resourceBaseUrl = Boot(e, a).resourceBaseUrl
    /\ poolConnectionString = Boot(e, a).poolConnectionString

\* Catalogs, tool names, arguments and URIs of the concurrent specification.
SampleCatalogs == { << <<"a">> >>, << <<"a">>, <<"/", "/", ":">> >> }

SampleToolNames == {"query", "insert", "drop"}

SampleSqlArguments == {StringArg(<<"a">>), StringArg(<<" ">>)}

SampleResults == {[rows |-> <<"r">>, rowCount |-> 1, command |-> "SELECT"]}

\* postgres://h/a/schema, postgres://h/a and a text that is no URL.
SampleUris ==
    { Postgres \o <<":", "/", "/", "h", "/", "a", "/">> \o SCHEMA_PATH,
      Postgres \o <<":", "/", "/", "h", "/", "a">>,
      <<"a">> }

\* The steps of executeSql and of the tool handler after the request.
ExecStep(p, results) ==
    \/ ExecuteSqlConnected(p)
    \/ BeginOk(p)
    \/ BeginFail(p)
    \/ \E res \in results : StatementOk(p, res)
    \/ StatementFail(p)
    \/ CloseOk(p)
    \/ CloseFail(p)
    \/ RecoverOk(p)
    \/ RecoverFail(p)

\* The steps of the resource handlers after the request; the table query
\* returns one of `catalogs`.
ResourceStep(p, catalogs) ==
    \/ ListConnected(p)
    \/ ListQueryFail(p)
    \/ \E rows \in catalogs : ListQueryOk(p, rows)
    \/ ReadConnected(p)
    \/ ReadQueryFail(p)
    \/ ReadQueryOk(p)

\* Concurrent requests against a server that has started; other sessions
\* create and drop tables, so a listing returns any of the sample catalogs.
Init ==
    /\ Started(Some(UrlA), <<>>)
    /\ tables = << <<"a">> >>
    /\ Quiet

Next ==
    \E p \in Procs :
        \/ \E name \in SampleToolNames, arg \in SampleSqlArguments : CallTool(p, name, arg)
        \/ ListResources(p)
        \/ \E uri \in SampleUris : ReadResource(p, uri)
        \/ ConnectFail(p)
        \/ ExecStep(p, SampleResults)
        \/ ResourceStep(p, SampleCatalogs)

Spec == Init /\ [][Next]_vars

\* One request of each kind per process, against the pool: a mutating tool
\* call, a listing and a read of a well-formed URI.
LiveNext ==
    \E p \in Procs :
        \/ CallTool(p, "insert", StringArg(<<"a">>))
        \/ ListResources(p)
        \/ ReadResource(p, Postgres \o <<":", "/", "/", "h", "/", "a", "/">> \o SCHEMA_PATH)
        \/ ConnectFail(p)
        \/ ExecStep(p, SampleResults)
        \/ ResourceStep(p, {tables})

\* Every handler that is past its request goes on: the pool serves its queue
\* and every database round trip returns.
Progress(p) == ConnectFail(p) \/ ExecStep(p, SampleResults) \/ ResourceStep(p, {tables})

LiveSpec == Init /\ [][LiveNext]_vars /\ \A p \in Procs : WF_vars(Progress(p))

\* One tool invocation at a time, over every tool name and "sql" argument.
ToolInit ==
    /\ Started(Some(UrlA), <<>>)
    /\ tables = <<>>
    /\ Quiet

ToolNext ==
    \/ \E name \in AllToolNames, arg \in AllSqlArguments : CallTool(1, name, arg)
    \/ ConnectFail(1)
    \/ ExecStep(1, Results)

ToolSpec == ToolInit /\ [][ToolNext]_vars

\* Startup under every configuration, then a listing and a read of a listed
\* URI, over every table name.
ListedUris ==
    UNION { {outcome[p].resources[i].uri : i \in 1..Len(outcome[p].resources)} :
            p \in {q \in Procs : req[q].kind = "list" /\ outcome[q].status = "ok"} }

StartInit ==
    /\ env \in EnvValues
    /\ argv \in ArgvValues
    /\ phase = "starting"
    /\ databaseUrl = None
    /\ resourceBaseUrl = Failure
    /\ poolConnectionString = None
    /\ tables \in {<<>>} \cup {<<t>> : t \in TableNames}
    /\ Quiet

StartNext ==
    \/ Startup
    \/ ListResources(1)
    \/ \E uri \in ListedUris : ReadResource(NumOps, uri)
    \/ \E p \in {1, NumOps} : ConnectFail(p) \/ ResourceStep(p, {tables})

StartSpec == StartInit /\ [][StartNext]_vars

(***************************************************************************)
(* Properties.                                                             *)
(***************************************************************************)
ToolCalls == {p \in Procs : req[p].kind = "tool"}

\* Positions of the commands of p that failed, and the first of them.
Failed(p) == {i \in 1..Len(replies[p]) : ~replies[p][i]}

FirstFailed(p) == CHOOSE i \in Failed(p) : \A j \in Failed(p) : i <= j

Succeeded(p, i) == Len(replies[p]) >= i /\ replies[p][i]

Rejected(p, i) == Len(replies[p]) >= i /\ ~replies[p][i]

\* The reply to the caller's statement, which is the second command when
\* BEGIN succeeded.
StatementSucceeded(p) ==
    Len(issued[p]) >= 2 /\ issued[p][2].kind = "statement" /\ Succeeded(p, 2)

StatementFailed(p) ==
    Len(issued[p]) >= 2 /\ issued[p][2].kind = "statement" /\ Rejected(p, 2)

Sent(p, text) == \E i \in 1..Len(issued[p]) : issued[p][i] = Control(text)

\* C1: a handler that got a client from the pool releases it exactly once,
\* and has done so when it returns or throws, whichever way it ends; a
\* handler that got no client releases nothing.
C1_ReleasedExactlyOnce ==
    \A p \in Procs :
        /\ releaseCount[p] <= 1
        /\ client[p] = 0 => releaseCount[p] = 0
        /\ (pc[p] = "done" /\ client[p] # 0) =>
               /\ releaseCount[p] = 1
               /\ leasedTo[client[p]] # p

\* A tool call whose BEGIN worked, whose statement failed and whose recovery
\* ROLLBACK failed too has ended with its client released.
C1_Witness ==
    \E p \in ToolCalls :
        /\ pc[p] = "done"
        /\ replies[p] = <<TRUE, FALSE, FALSE>>
        /\ releaseCount[p] = 1

\* C2: a read-only call opens its transaction with BEGIN TRANSACTION READ
\* ONLY, never sends COMMIT, and once its statement has succeeded has sent
\* ROLLBACK as the closing command.
C2_ReadOnlyNeverCommits ==
    \A p \in ToolCalls :
        (FindTool(req[p].name) # None /\ ReadOnlyOf(p)) =>
            /\ issued[p] # <<>> => issued[p][1] = Control("BEGIN TRANSACTION READ ONLY")
            /\ ~Sent(p, "COMMIT")
            /\ StatementSucceeded(p) => issued[p][3] = Control("ROLLBACK")

\* A read-only call has returned after BEGIN, statement and ROLLBACK.
C2_Witness ==
    \E p \in ToolCalls :
        /\ req[p].name = "query"
        /\ pc[p] = "done"
        /\ outcome[p].status = "ok"
        /\ replies[p] = <<TRUE, TRUE, TRUE>>

\* C3: a mutating call has sent COMMIT exactly when its BEGIN and its
\* statement both succeeded; when its statement failed it sent ROLLBACK
\* next, it ends in an error, and its effects are never committed.
C3_CommitIffStatementSucceeded ==
    \A p \in ToolCalls :
        (FindTool(req[p].name) # None /\ ~ReadOnlyOf(p)) =>
            /\ Sent(p, "COMMIT") <=> (Succeeded(p, 1) /\ StatementSucceeded(p))
            /\ StatementFailed(p) =>
                   /\ Len(issued[p]) = 3
                   /\ issued[p][3] = Control("ROLLBACK")
                   /\ pc[p] = "done" => outcome[p].status = "error"
                   /\ p \notin persisted

\* A mutating call has ended after its statement failed.
C3_Witness ==
    \E p \in ToolCalls :
        /\ req[p].name = "insert"
        /\ pc[p] = "done"
        /\ StatementFailed(p)

\* C4: when BEGIN, the statement or the closing command failed, a ROLLBACK
\* is the next and last command sent, the error thrown is the error of that
\* first failure, and a ROLLBACK that fails in turn leaves one warning and
\* the same error.
C4_OriginalErrorSurfaces ==
    \A p \in ToolCalls :
        Failed(p) # {} =>
            /\ FirstFailed(p) <= 3
            /\ Len(issued[p]) = FirstFailed(p) + 1
            /\ issued[p][FirstFailed(p) + 1] = Control("ROLLBACK")
            /\ pc[p] = "done" =>
                   /\ outcome[p] = Thrown(DatabaseError(FirstFailed(p)))
                   /\ warnings[p] = (IF Rejected(p, FirstFailed(p) + 1) THEN 1 ELSE 0)

\* A call has ended after its COMMIT failed and the recovery ROLLBACK failed.
C4_Witness ==
    \E p \in ToolCalls :
        /\ pc[p] = "done"
        /\ replies[p] = <<TRUE, TRUE, FALSE, FALSE>>
        /\ issued[p][3] = Control("COMMIT")
        /\ warnings[p] = 1

\* C5 as claimed: once executeSql has released its client, the session of
\* that client is in no transaction that the call opened.
C5_NoOpenTransactionAtRelease ==
    \A p \in ToolCalls :
        (pc[p] = "done" /\ releaseCount[p] > 0) => tx[client[p]].by # p

KnownTools == {"query", "insert", "update", "delete", "function_call", "function_create"}

\* The argument is a string with a character that is no white space.
NonBlank(arg) == arg.type = "string" /\ \E i \in 1..Len(arg.text) : arg.text[i] # " "

\* C6: a tool call asks the pool for a client only for one of the six tools
\* and a "sql" string that is not blank; an unknown name ends in the
\* unknown-tool error and a missing, non-string or blank "sql" in the
\* argument error, with no client asked for and no command sent.
C6_ValidatedBeforeConnect ==
    \A p \in ToolCalls :
        /\ (connects[p] > 0 \/ client[p] # 0 \/ issued[p] # <<>>) =>
               (req[p].name \in KnownTools /\ NonBlank(req[p].arg))
        /\ req[p].name \notin KnownTools =>
               /\ pc[p] = "done"
               /\ outcome[p] = Thrown(HandlerError("Unknown tool"))
               /\ connects[p] = 0
        /\ (req[p].name \in KnownTools /\ ~NonBlank(req[p].arg)) =>
               /\ pc[p] = "done"
               /\ outcome[p] =
                      Thrown(HandlerError("The sql argument must be a non-empty string."))
               /\ connects[p] = 0

\* A known tool called with a blank "sql" has been refused.
C6_Witness ==
    \E p \in ToolCalls :
        /\ req[p].name = "insert"
        /\ req[p].arg = StringArg(<<" ">>)
        /\ pc[p] = "done"
        /\ connects[p] = 0

\* C7: a tool call that succeeds answers isError = false with the rows of
\* the database result for query, and with the rowCount, rows and command
\* of the database result for each of the five other tools.
C7_PayloadByMode ==
    \A p \in ToolCalls :
        (pc[p] = "done" /\ outcome[p].status = "ok") =>
            /\ outcome[p].isError = FALSE
            /\ req[p].name = "query" =>
                   outcome[p].payload = [shape |-> "rows", rows |-> result[p][1].rows]
            /\ req[p].name \in KnownTools \ {"query"} =>
                   outcome[p].payload =
                       [shape |-> "envelope", rowCount |-> result[p][1].rowCount,
                        rows |-> result[p][1].rows, command |-> result[p][1].command]

\* function_create has returned the envelope of a result with one row.
C7_Witness ==
    \E p \in ToolCalls :
        /\ req[p].name = "function_create"
        /\ pc[p] = "done"
        /\ outcome[p].status = "ok"
        /\ outcome[p].payload.rowCount = 1

\* C8 as claimed: a read of a listed URI is not refused, asks for the columns
\* of the table the URI was built from, and returns rows when its query works.
C8_ListedUriReadsBack ==
    \A p \in Procs :
        req[p].kind = "read" =>
            /\ outcome[p] # Thrown(UrlError)
            /\ outcome[p] # Thrown(HandlerError("Invalid resource URI"))
            /\ req[p].tableName = Some(tables[1])
            /\ (pc[p] = "done" /\ replies[p] = <<TRUE>>) =>
                   (outcome[p].status = "ok" /\ outcome[p].rows # <<>>)

\* C9 as claimed: with DATABASE_URL set and a connection string on the
\* command line, the pool is created with the one of the command line.
C9_ArgumentOverridesEnvironment ==
    (phase = "serving" /\ env # None /\ Len(argv) >= 1) =>
        poolConnectionString = Some(argv[1])

Leases(p) == {c \in Conns : leasedTo[c] = p}

Waiting(p) == \E i \in 1..Len(pendingQueue) : pendingQueue[i] = p

InFlight(p) == pc[p] \notin {"idle", "done"}

\* A handler holds at most one client, asks the pool at most once, holds
\* none while it waits, and keeps its client until its last step.
LeaseDiscipline ==
    \A p \in Procs :
        /\ Cardinality(Leases(p)) <= 1
        /\ connects[p] <= 1
        /\ Waiting(p) => Leases(p) = {}
        /\ (InFlight(p) /\ ~Waiting(p)) => Leases(p) = {client[p]}
        /\ ~InFlight(p) => Leases(p) = {}

\* C10: every handler keeps the lease discipline; so, when the pool serves
\* its queue and every round trip returns, every request in flight ends, and
\* with none in flight every client of the pool is free.
C10_NoPoolDeadlock ==
    /\ [](LeaseDiscipline)
    /\ \A p \in Procs : InFlight(p) ~> (pc[p] = "done")
    /\ []((\A p \in Procs : ~InFlight(p)) => (\A c \in Conns : leasedTo[c] = 0))

\* One request holds a client in the middle of its transaction while
\* another waits in the queue of the pool.
C10_Witness ==
    \E p, q \in Procs :
        /\ p # q
        /\ pc[p] = "statement"
        /\ Leases(p) # {}
        /\ Waiting(q)
        /\ \A c \in Conns : leasedTo[c] # 0

=============================================================================
